---- MODULE Spec2Model ----
(***************************************************************************)
(* Model of src/Page_Replacement.py: PageReplacementSimulator and its four *)
(* policy methods fifo, lru, lfu and optimal.  One simulator object is     *)
(* constructed from (frames, reference_string); a policy method is then    *)
(* called on it any number of times, in any order.  Each iteration of a    *)
(* method's for loop is one step of the model.                             *)
(***************************************************************************)
EXTENDS Integers, Sequences, FiniteSets, TLC

VARIABLES self, pc, i, queue, lru_cache, lfu_cache, frequency, opt_cache, setOrder, reused,
          error, report, kept

vars == <<self, pc, i, queue, lru_cache, lfu_cache, frequency, opt_cache, setOrder, reused,
          error, report, kept>>

(* ------------------------------ bounds --------------------------------- *)

\* Page identifiers of the enumerated inputs are 1..NumPages.
NumPages == 3

\* Longest enumerated reference string.
MaxLen == 4

\* Largest enumerated frame count.
MaxFrames == 2

(* --------------------------- Python helpers ---------------------------- *)

\* `x in s` on a list, deque or ordered mapping.
Contains(s, x) == \E k \in 1..Len(s) : s[k] = x

\* The elements of a sequence, as a set.
Range(s) == {s[k] : k \in 1..Len(s)}

\* A sequence without the element x (elements are unique in every container).
Without(s, x) == SelectSeq(s, LAMBDA y : y # x)

\* All orders in which the elements of S can be listed.
Perms(S) == {f \in [1..Cardinality(S) -> S] : \A a, b \in 1..Cardinality(S) : f[a] = f[b] => a = b}

\* list(state) for a set: Python leaves the iteration order of a set to the
\* implementation; a build lists the pages of a set in its own fixed order
\* (setOrder), restricted to the members.
SetIter(S, order) == SelectSeq(order, LAMBDA p : p \in S)

\* collections.Counter lookup: a missing key counts 0.
CounterGet(c, k) == IF k \in DOMAIN c THEN c[k] ELSE 0

\* frequency[page] += 1
CounterIncr(c, k) == [x \in (DOMAIN c) \cup {k} |-> IF x = k THEN CounterGet(c, k) + 1 ELSE c[x]]

\* The empty Counter / mapping.
EmptyMap == [x \in {} |-> 0]

(* ------------------------- the simulator object ------------------------ *)

\* PageReplacementSimulator.__init__
SimInit(frames, reference_string) ==
  [frames |-> frames, reference_string |-> reference_string,
   page_faults |-> 0, page_hits |-> 0, log |-> <<>>]

\* Log entries: f"Page {removed} replaced by {page}" and f"Memory State: {list(state)}".
Replaced(removed, page) == [kind |-> "replaced", removed |-> removed, page |-> page]
MemoryState(state) == [kind |-> "state", state |-> state]

\* PageReplacementSimulator.log_state
log_state(s, state) == [s EXCEPT !.log = Append(@, MemoryState(state))]

\* reset_metrics with the log left as it is (self.log.clear() forgotten).
reset_metrics_keep_log(s) == [s EXCEPT !.page_faults = 0, !.page_hits = 0]

\* reset_metrics with the counters left as they are.
reset_metrics_keep_counts(s) == [s EXCEPT !.log = <<>>]

\* PageReplacementSimulator.reset_metrics
reset_metrics(s) == [s EXCEPT !.page_faults = 0, !.page_hits = 0, !.log = <<>>]

\* A hit that is not counted.
Hit_uncounted(s) == s

\* self.page_hits += 1 and self.page_faults += 1
Hit(s) == [s EXCEPT !.page_hits = @ + 1]
Fault(s) == [s EXCEPT !.page_faults = @ + 1]

\* A replacement that is not logged.
LogReplaced_dropped(s, removed, page) == s

\* self.log.append(f"Page {removed} replaced by {page}")
LogReplaced(s, removed, page) == [s EXCEPT !.log = Append(@, Replaced(removed, page))]

(* --------------------------------- fifo -------------------------------- *)

\* fifo's iteration with the capacity test written > instead of >=.
fifo_iter_over(s, q, page) ==
  IF Contains(q, page)
  THEN [self |-> log_state(Hit(s), q), queue |-> q]
  ELSE LET s1 == Fault(s)
           full == Len(q) > s.frames
           s2 == IF full THEN LogReplaced(s1, Head(q), page) ELSE s1
           q2 == Append(IF full THEN Tail(q) ELSE q, page)
       IN [self |-> log_state(s2, q2), queue |-> q2]

\* fifo's iteration with a hit moving the page to the back of the queue.
fifo_iter_refresh(s, q, page) ==
  IF Contains(q, page)
  THEN LET q1 == Append(Without(q, page), page)
       IN [self |-> log_state(Hit(s), q1), queue |-> q1]
  ELSE LET s1 == Fault(s)
           full == Len(q) >= s.frames
           s2 == IF full THEN LogReplaced(s1, Head(q), page) ELSE s1
           q2 == Append(IF full THEN Tail(q) ELSE q, page)
       IN [self |-> log_state(s2, q2), queue |-> q2]

\* One iteration of fifo's loop, on the simulator s and the deque q.
fifo_iter(s, q, page) ==
  IF Contains(q, page)
  THEN [self |-> log_state(Hit(s), q), queue |-> q]
  ELSE LET s1 == Fault(s)
           full == Len(q) >= s.frames
           s2 == IF full THEN LogReplaced(s1, Head(q), page) ELSE s1
           q2 == Append(IF full THEN Tail(q) ELSE q, page)
       IN [self |-> log_state(s2, q2), queue |-> q2]

\* queue.popleft() on an empty deque raises IndexError: the page is not in the
\* queue, the capacity test passes and there is nothing to pop.
fifo_raises(s, q, page) == ~Contains(q, page) /\ Len(q) >= s.frames /\ Len(q) = 0

(* --------------------------------- lru --------------------------------- *)

\* lru's iteration without cache.move_to_end(page) on a hit.
lru_iter_no_touch(s, c, page) ==
  IF Contains(c, page)
  THEN [self |-> log_state(Hit(s), c), cache |-> c]
  ELSE LET s1 == Fault(s)
           full == Len(c) >= s.frames
           s2 == IF full THEN LogReplaced(s1, Head(c), page) ELSE s1
           c2 == Append(IF full THEN Tail(c) ELSE c, page)
       IN [self |-> log_state(s2, c2), cache |-> c2]

\* lru's iteration evicting one page early: len(cache) + 1 >= frames.
lru_iter_early(s, c, page) ==
  IF Contains(c, page)
  THEN LET c1 == Append(Without(c, page), page)
       IN [self |-> log_state(Hit(s), c1), cache |-> c1]
  ELSE LET s1 == Fault(s)
           full == Len(c) >= 1 /\ Len(c) + 1 >= s.frames
           s2 == IF full THEN LogReplaced(s1, Head(c), page) ELSE s1
           c2 == Append(IF full THEN Tail(c) ELSE c, page)
       IN [self |-> log_state(s2, c2), cache |-> c2]

\* One iteration of lru's loop; c is the key order of the OrderedDict.
lru_iter(s, c, page) ==
  IF Contains(c, page)
  THEN LET c1 == Append(Without(c, page), page)
       IN [self |-> log_state(Hit(s), c1), cache |-> c1]
  ELSE LET s1 == Fault(s)
           full == Len(c) >= s.frames
           s2 == IF full THEN LogReplaced(s1, Head(c), page) ELSE s1
           c2 == Append(IF full THEN Tail(c) ELSE c, page)
       IN [self |-> log_state(s2, c2), cache |-> c2]

\* cache.popitem(last=False) on an empty OrderedDict raises KeyError.
lru_raises(s, c, page) == ~Contains(c, page) /\ Len(c) >= s.frames /\ Len(c) = 0

(* --------------------------------- lfu --------------------------------- *)

\* Python's order on the key tuples (frequency[k], cache[k]).
TupleLess(a, b) == a[1] < b[1] \/ (a[1] = b[1] /\ a[2] < b[2])

\* lfu's key without the frequency: insertion order alone.
lfu_key_tag_only(f, e) == <<0, e.tag>>

\* The key of lfu's min(): (frequency[k], cache[k]) of the cache entry e.
lfu_key(f, e) == <<CounterGet(f, e.page), e.tag>>

\* min(cache, key=lambda k: (frequency[k], cache[k])): the first entry, in the
\* dict's insertion order, that no entry is smaller than.
least_used(c, f) ==
  LET first == CHOOSE k \in 1..Len(c) :
                 /\ \A j \in 1..Len(c) : ~TupleLess(lfu_key(f, c[j]), lfu_key(f, c[k]))
                 /\ \A j \in 1..(k - 1) : TupleLess(lfu_key(f, c[k]), lfu_key(f, c[j]))
  IN c[first].page

\* cache.keys() of lfu's dict, in insertion order.
Keys(c) == [k \in 1..Len(c) |-> c[k].page]

\* lfu's iteration with the capacity test written > instead of >=.
lfu_iter_over(s, c, f, page) ==
  LET f1 == CounterIncr(f, page)
  IN IF Contains(Keys(c), page)
     THEN [self |-> log_state(Hit(s), Keys(c)), cache |-> c, frequency |-> f1]
     ELSE LET s1 == Fault(s)
              full == Len(c) > s.frames
              victim == least_used(c, f1)
              c1 == IF full THEN SelectSeq(c, LAMBDA e : e.page # victim) ELSE c
              s2 == IF full THEN LogReplaced(s1, victim, page) ELSE s1
              c2 == Append(c1, [page |-> page, tag |-> Len(s2.log)])
          IN [self |-> log_state(s2, Keys(c2)), cache |-> c2, frequency |-> f1]

\* lfu's iteration dropping the evicted page's frequency (del frequency[least_used]).
lfu_iter_forget(s, c, f, page) ==
  LET f1 == CounterIncr(f, page)
  IN IF Contains(Keys(c), page)
     THEN [self |-> log_state(Hit(s), Keys(c)), cache |-> c, frequency |-> f1]
     ELSE LET s1 == Fault(s)
              full == Len(c) >= s.frames
              victim == least_used(c, f1)
              c1 == IF full THEN SelectSeq(c, LAMBDA e : e.page # victim) ELSE c
              s2 == IF full THEN LogReplaced(s1, victim, page) ELSE s1
              c2 == Append(c1, [page |-> page, tag |-> Len(s2.log)])
              f2 == IF full THEN [x \in (DOMAIN f1) \ {victim} |-> f1[x]] ELSE f1
          IN [self |-> log_state(s2, Keys(c2)), cache |-> c2, frequency |-> f2]

\* One iteration of lfu's loop; c is the dict page -> insertion tag in insertion
\* order, f the frequency Counter.
lfu_iter(s, c, f, page) ==
  LET f1 == CounterIncr(f, page)
  IN IF Contains(Keys(c), page)
     THEN [self |-> log_state(Hit(s), Keys(c)), cache |-> c, frequency |-> f1]
     ELSE LET s1 == Fault(s)
              full == Len(c) >= s.frames
              victim == least_used(c, f1)
              c1 == IF full THEN SelectSeq(c, LAMBDA e : e.page # victim) ELSE c
              s2 == IF full THEN LogReplaced(s1, victim, page) ELSE s1
              c2 == Append(c1, [page |-> page, tag |-> Len(s2.log)])
          IN [self |-> log_state(s2, Keys(c2)), cache |-> c2, frequency |-> f1]

\* min() of an empty dict raises ValueError.
lfu_raises(s, c, page) == ~Contains(Keys(c), page) /\ Len(c) >= s.frames /\ Len(c) = 0

(* ------------------------------- optimal ------------------------------- *)

\* A missing page reported as index -1 instead of float('inf').
inf_minus_one(refs) == 0 - 1

\* float('inf'): greater than every index into reference_string[i + 1:].
inf(refs) == Len(refs)

\* future_indices computed with reference_string.index(p): the slice forgotten.
future_index_whole(refs, at, p) ==
  IF Contains(refs, p)
  THEN (CHOOSE k \in 1..Len(refs) : refs[k] = p /\ \A j \in 1..(k - 1) : refs[j] # p) - 1
  ELSE inf(refs)

\* future_indices[p]: the 0-based index of p's first occurrence in
\* reference_string[i + 1:], or inf; at is the 1-based position of the page
\* being processed.
future_index(refs, at, p) ==
  LET rest == SubSeq(refs, at + 1, Len(refs))
  IN IF Contains(rest, p)
     THEN (CHOOSE k \in 1..Len(rest) : rest[k] = p /\ \A j \in 1..(k - 1) : rest[j] # p) - 1
     ELSE inf(refs)

\* to_replace taken with min() instead of max(): the page used soonest.
to_replace_nearest(refs, at, c, order) ==
  LET it == SetIter(c, order)
      first == CHOOSE k \in 1..Len(it) :
                 /\ \A j \in 1..Len(it) : future_index(refs, at, it[j]) >= future_index(refs, at, it[k])
                 /\ \A j \in 1..(k - 1) : future_index(refs, at, it[j]) > future_index(refs, at, it[k])
  IN it[first]

\* max(future_indices, key=future_indices.get): the first page, in the set's
\* iteration order, that no page has a greater future index than.
to_replace(refs, at, c, order) ==
  LET it == SetIter(c, order)
      first == CHOOSE k \in 1..Len(it) :
                 /\ \A j \in 1..Len(it) : future_index(refs, at, it[j]) <= future_index(refs, at, it[k])
                 /\ \A j \in 1..(k - 1) : future_index(refs, at, it[j]) < future_index(refs, at, it[k])
  IN it[first]

\* optimal's iteration with cache.add(page) skipped after an eviction.
optimal_iter_no_add(s, c, at, page, order) ==
  IF page \in c
  THEN [self |-> log_state(Hit(s), SetIter(c, order)), cache |-> c]
  ELSE LET s1 == Fault(s)
           full == Cardinality(c) >= s.frames
           victim == to_replace(s.reference_string, at, c, order)
           s2 == IF full THEN LogReplaced(s1, victim, page) ELSE s1
           c2 == IF full THEN c \ {victim} ELSE c \cup {page}
       IN [self |-> log_state(s2, SetIter(c2, order)), cache |-> c2]

\* One iteration of optimal's loop; c is the set, at the 1-based position of page.
optimal_iter(s, c, at, page, order) ==
  IF page \in c
  THEN [self |-> log_state(Hit(s), SetIter(c, order)), cache |-> c]
  ELSE LET s1 == Fault(s)
           full == Cardinality(c) >= s.frames
           victim == to_replace(s.reference_string, at, c, order)
           s2 == IF full THEN LogReplaced(s1, victim, page) ELSE s1
           c2 == (IF full THEN c \ {victim} ELSE c) \cup {page}
       IN [self |-> log_state(s2, SetIter(c2, order)), cache |-> c2]

\* max() of an empty future_indices raises ValueError.
optimal_raises(s, c, page) == page \notin c /\ Cardinality(c) >= s.frames /\ c = {}

(* ------------------------ the methods as a whole ----------------------- *)

RECURSIVE fifo_loop(_, _, _)
\* fifo's for loop from position k on; an exception ends it where it is raised.
fifo_loop(s, q, k) ==
  IF k > Len(s.reference_string) THEN s
  ELSE IF fifo_raises(s, q, s.reference_string[k]) THEN Fault(s)
  ELSE LET r == fifo_iter(s, q, s.reference_string[k]) IN fifo_loop(r.self, r.queue, k + 1)

\* PageReplacementSimulator.fifo: the simulator after the call.
fifo(s) == fifo_loop(reset_metrics(s), <<>>, 1)

RECURSIVE lru_loop(_, _, _)
\* lru's for loop from position k on; an exception ends it where it is raised.
lru_loop(s, c, k) ==
  IF k > Len(s.reference_string) THEN s
  ELSE IF lru_raises(s, c, s.reference_string[k]) THEN Fault(s)
  ELSE LET r == lru_iter(s, c, s.reference_string[k]) IN lru_loop(r.self, r.cache, k + 1)

\* PageReplacementSimulator.lru: the simulator after the call.
lru(s) == lru_loop(reset_metrics(s), <<>>, 1)

RECURSIVE lfu_loop(_, _, _, _)
\* lfu's for loop from position k on; an exception ends it where it is raised.
lfu_loop(s, c, f, k) ==
  IF k > Len(s.reference_string) THEN s
  ELSE IF lfu_raises(s, c, s.reference_string[k]) THEN Fault(s)
  ELSE LET r == lfu_iter(s, c, f, s.reference_string[k])
       IN lfu_loop(r.self, r.cache, r.frequency, k + 1)

\* PageReplacementSimulator.lfu: the simulator after the call.
lfu(s) == lfu_loop(reset_metrics(s), <<>>, EmptyMap, 1)

RECURSIVE optimal_loop(_, _, _, _)
\* optimal's for loop from position k on; an exception ends it where it is raised.
optimal_loop(s, c, k, order) ==
  IF k > Len(s.reference_string) THEN s
  ELSE IF optimal_raises(s, c, s.reference_string[k]) THEN Fault(s)
  ELSE LET r == optimal_iter(s, c, k, s.reference_string[k], order)
       IN optimal_loop(r.self, r.cache, k + 1, order)

\* PageReplacementSimulator.optimal: the simulator after the call, on a build
\* that iterates sets in the given order.
optimal(s, order) == optimal_loop(reset_metrics(s), {}, 1, order)

\* The pages max(future_indices, key=future_indices.get) can return under some
\* iteration order of the set: those with the greatest future index.
farthest(refs, at, c) ==
  {p \in c : \A q \in c : future_index(refs, at, q) <= future_index(refs, at, p)}

RECURSIVE optimal_faults(_, _, _, _)
\* The page_faults that optimal's loop can add from position k on with the set c
\* resident, over every iteration order the set may have at each eviction.
optimal_faults(frames, refs, c, k) ==
  IF k > Len(refs) THEN {0}
  ELSE IF refs[k] \in c THEN optimal_faults(frames, refs, c, k + 1)
  ELSE IF Cardinality(c) >= frames
  THEN UNION {{n + 1 : n \in optimal_faults(frames, refs, (c \ {v}) \cup {refs[k]}, k + 1)} :
              v \in farthest(refs, k, c)}
  ELSE {n + 1 : n \in optimal_faults(frames, refs, c \cup {refs[k]}, k + 1)}

(* ------------------------------- inputs -------------------------------- *)

Pages == 1..NumPages

\* Reference strings of length n over Pages.
RefsOfLen(n) == [1..n -> Pages]

\* The inputs (frames, reference_string) quoted as examples: Belady, LRU, LFU.
BeladyInput == <<3, <<1, 2, 3, 4, 1, 2, 5, 1, 2, 3>>>>
LruInput == <<3, <<1, 2, 3, 1, 4>>>>
LfuInput == <<3, <<1, 2, 1, 3, 4>>>>

\* What main() reads: a frame count and a reference string.
Inputs ==
  {<<f, r>> : f \in 1..MaxFrames, r \in UNION {RefsOfLen(n) : n \in 0..MaxLen}}
  \cup {BeladyInput, LruInput, LfuInput}

(* ------------------------------- actions ------------------------------- *)

\* Nothing displayed, nothing kept.
NoReport == [algorithm |-> "none"]
NoResult == [policy |-> "none"]

\* The frame counts main() accepts although no policy can run with them:
\* int(input()) takes zero and negative numbers.
InvalidInputs ==
  {<<f, r>> : f \in (0 - MaxFrames)..0, r \in UNION {RefsOfLen(n) : n \in 0..MaxLen}}

NoLocals ==
  /\ queue' = <<>>
  /\ lru_cache' = <<>>
  /\ lfu_cache' = <<>>
  /\ frequency' = EmptyMap
  /\ opt_cache' = {}

\* main() up to the construction of the simulator, for the inputs of the set ins.
Start(ins) ==
  \E in \in ins : \E order \in Perms(Range(in[2])) :
    /\ self = SimInit(in[1], in[2])
    /\ setOrder = order
    /\ pc = "new"
    /\ i = 1
    /\ queue = <<>>
    /\ lru_cache = <<>>
    /\ lfu_cache = <<>>
    /\ frequency = EmptyMap
    /\ opt_cache = {}
    /\ reused = FALSE
    /\ error = "none"
    /\ report = NoReport
    /\ kept = NoResult

Init == Start(Inputs)

InitInvalid == Start(InvalidInputs)

\* No policy method is executing: the simulator was just constructed, or the
\* last method's loop is exhausted and it has returned.
Returned == pc = "new" \/ i > Len(self.reference_string)

\* What a caller that read the simulator after the run has: the two counters
\* and the log of the run.
Result(method, s) ==
  [policy |-> method, page_hits |-> s.page_hits, page_faults |-> s.page_faults, log |-> s.log]

\* A call of one of the four methods: its locals are created empty and
\* reset_metrics() runs before the loop.  kept remembers the result the
\* simulator held when the call was made.
Call(method) ==
  /\ error = "none"
  /\ Returned
  /\ pc' = method
  /\ i' = 1
  /\ self' = reset_metrics(self)
  /\ NoLocals
  /\ reused' = (pc # "new")
  /\ kept' = IF pc = "new" THEN NoResult ELSE Result(pc, self)
  /\ report' = NoReport
  /\ UNCHANGED <<setOrder, error>>

CallFifo == Call("fifo")
CallLru == Call("lru")
CallLfu == Call("lfu")
CallOptimal == Call("optimal")

\* An exception leaves the method: the fault was counted, nothing was logged,
\* and nothing catches it.
Raise(name) ==
  /\ self' = Fault(self)
  /\ error' = name
  /\ UNCHANGED <<pc, i, queue, lru_cache, lfu_cache, opt_cache, setOrder, reused, report, kept>>

FifoIter ==
  /\ error = "none"
  /\ pc = "fifo" /\ i <= Len(self.reference_string)
  /\ IF fifo_raises(self, queue, self.reference_string[i])
     THEN Raise("IndexError") /\ UNCHANGED frequency
     ELSE /\ LET r == fifo_iter(self, queue, self.reference_string[i])
             IN self' = r.self /\ queue' = r.queue
          /\ i' = i + 1
          /\ UNCHANGED <<pc, lru_cache, lfu_cache, frequency, opt_cache, setOrder, reused,
                         error, report, kept>>

LruIter ==
  /\ error = "none"
  /\ pc = "lru" /\ i <= Len(self.reference_string)
  /\ IF lru_raises(self, lru_cache, self.reference_string[i])
     THEN Raise("KeyError") /\ UNCHANGED frequency
     ELSE /\ LET r == lru_iter(self, lru_cache, self.reference_string[i])
             IN self' = r.self /\ lru_cache' = r.cache
          /\ i' = i + 1
          /\ UNCHANGED <<pc, queue, lfu_cache, frequency, opt_cache, setOrder, reused,
                         error, report, kept>>

LfuIter ==
  /\ error = "none"
  /\ pc = "lfu" /\ i <= Len(self.reference_string)
  /\ IF lfu_raises(self, lfu_cache, self.reference_string[i])
     THEN Raise("ValueError") /\ frequency' = CounterIncr(frequency, self.reference_string[i])
     ELSE /\ LET r == lfu_iter(self, lfu_cache, frequency, self.reference_string[i])
             IN self' = r.self /\ lfu_cache' = r.cache /\ frequency' = r.frequency
          /\ i' = i + 1
          /\ UNCHANGED <<pc, queue, lru_cache, opt_cache, setOrder, reused, error, report, kept>>

OptimalIter ==
  /\ error = "none"
  /\ pc = "optimal" /\ i <= Len(self.reference_string)
  /\ IF optimal_raises(self, opt_cache, self.reference_string[i])
     THEN Raise("ValueError") /\ UNCHANGED frequency
     ELSE /\ LET r == optimal_iter(self, opt_cache, i, self.reference_string[i], setOrder)
             IN self' = r.self /\ opt_cache' = r.cache
          /\ i' = i + 1
          /\ UNCHANGED <<pc, queue, lru_cache, lfu_cache, frequency, setOrder, reused,
                         error, report, kept>>

\* f"{n / d * 100:.2f}": the percentage in hundredths, rounded half to even.
Percentage(n, d) ==
  LET q == (n * 10000) \div d
      r == (n * 10000) % d
  IN IF 2 * r > d \/ (2 * r = d /\ q % 2 = 1) THEN q + 1 ELSE q

\* PageReplacementSimulator.display_results: what it prints, and the
\* ZeroDivisionError of the percentage lines when reference_string is empty
\* (the lines before them are printed by then).
display_results(s, algorithm_name) ==
  LET printed == [algorithm |-> algorithm_name, entries |-> s.log,
                  page_faults |-> s.page_faults, page_hits |-> s.page_hits]
      n == Len(s.reference_string)
  IN IF n = 0
     THEN [error |-> "ZeroDivisionError", report |-> printed]
     ELSE [error |-> "none",
           report |-> [algorithm |-> algorithm_name, entries |-> s.log,
                       page_faults |-> s.page_faults, page_hits |-> s.page_hits,
                       fault_percentage |-> Percentage(s.page_faults, n),
                       hit_percentage |-> Percentage(s.page_hits, n)]]

\* main() displays the results of a method once it has returned.
Display ==
  /\ error = "none"
  /\ pc # "new" /\ Returned
  /\ report = NoReport
  /\ LET d == display_results(self, pc)
     IN error' = d.error /\ report' = d.report
  /\ UNCHANGED <<self, pc, i, queue, lru_cache, lfu_cache, frequency, opt_cache, setOrder,
                 reused, kept>>

Next ==
  \/ CallFifo \/ CallLru \/ CallLfu \/ CallOptimal
  \/ FifoIter \/ LruIter \/ LfuIter \/ OptimalIter
  \/ Display

Spec == Init /\ [][Next]_vars

\* The same program started on a frame count that is zero or negative.
SpecInvalid == InitInvalid /\ [][Next]_vars

(* ------------------------------ observers ------------------------------ *)

\* The simulator as its constructor leaves it, for the inputs of this run.
Fresh == SimInit(self.frames, self.reference_string)

\* A policy method has run to the end of reference_string.
Finished == pc # "new" /\ i > Len(self.reference_string)

\* An iteration of the executing method's loop.
Iter == pc' = pc /\ i' = i + 1

\* The resident pages of the executing method.
Resident ==
  CASE pc = "fifo" -> Range(queue)
    [] pc = "lru" -> Range(lru_cache)
    [] pc = "lfu" -> Range(Keys(lfu_cache))
    [] pc = "optimal" -> opt_cache
    [] OTHER -> {}

\* The resident pages after the step being taken.
ResidentNext ==
  CASE pc' = "fifo" -> Range(queue')
    [] pc' = "lru" -> Range(lru_cache')
    [] pc' = "lfu" -> Range(Keys(lfu_cache'))
    [] pc' = "optimal" -> opt_cache'
    [] OTHER -> {}

\* The distinct pages among the first n references.
Seen(n) == {self.reference_string[k] : k \in 1..n}

Smaller(a, b) == IF a <= b THEN a ELSE b

\* The replacement records and the snapshots of a log, in order.
Replacements(log) == SelectSeq(log, LAMBDA e : e.kind = "replaced")
Snapshots(log) == SelectSeq(log, LAMBDA e : e.kind = "state")

\* The step that has just been taken evicted a page: the log ends with a
\* replacement record and the step's snapshot.
JustEvicted ==
  /\ pc # "new" /\ i > 1 /\ Len(self.log) >= 2
  /\ self.log[Len(self.log) - 1].kind = "replaced"

\* The page evicted by the step that has just been taken.
Evicted == self.log[Len(self.log) - 1].removed

\* The step being taken evicts: it appends a replacement record and a snapshot.
Evicts == Iter /\ Len(self'.log) = Len(self.log) + 2

\* The page evicted by the step being taken.
Victim == self'.log[Len(self.log) + 1].removed

(* ------------------------------- claims -------------------------------- *)

\* C1: for every policy, hits + faults counts the references processed so far, so
\* page_hits + page_faults = len(reference_string) when the run completes, and
\* every step counts its reference as exactly one of a hit or a fault.
C1_HitsPlusFaults ==
  /\ [](pc # "new" => self.page_hits + self.page_faults = i - 1)
  /\ [](Finished => self.page_hits + self.page_faults = Len(self.reference_string))
  /\ [][Iter => \/ self'.page_hits = self.page_hits + 1 /\ self'.page_faults = self.page_faults
                \/ self'.page_faults = self.page_faults + 1 /\ self'.page_hits = self.page_hits]_vars

\* C1 witness: a completed lfu run that counted both hits and faults.
C1_Witness ==
  Finished /\ pc = "lfu" /\ self.page_hits >= 1 /\ self.page_faults >= 2

\* C2: after every step the resident set holds at most frames pages and at least
\* min(frames, distinct pages referenced so far), and no step shrinks it.
C2_ResidentSize ==
  /\ [](pc # "new" =>
          /\ Cardinality(Resident) <= self.frames
          /\ Cardinality(Resident) >= Smaller(self.frames, Cardinality(Seen(i - 1))))
  /\ [][Iter => Cardinality(ResidentNext) >= Cardinality(Resident)]_vars

\* C2 witness: an lru step evicted, and the resident set is still full.
C2_Witness ==
  /\ pc = "lru" /\ JustEvicted
  /\ Cardinality(Resident) = self.frames
  /\ Cardinality(Seen(i - 1)) > self.frames

\* C3 as stated: optimal on [1,2,3,4,1,2,5,1,2,3] with 3 frames ends with 7 faults.
C3_BeladySeven ==
  (Finished /\ pc = "optimal" /\ <<self.frames, self.reference_string>> = BeladyInput)
    => self.page_faults = 7

\* C3 amended: optimal on [1,2,3,4,1,2,5,1,2,3] with 3 frames ends with 6 faults
\* (and 4 hits).
C3_BeladySix ==
  (Finished /\ pc = "optimal" /\ <<self.frames, self.reference_string>> = BeladyInput)
    => self.page_faults = 6 /\ self.page_hits = 4

\* C3 witness: the completed optimal run on the Belady input.
C3_Witness ==
  /\ Finished /\ pc = "optimal"
  /\ <<self.frames, self.reference_string>> = BeladyInput
  /\ Len(Replacements(self.log)) = 3

\* C4: optimal's page_faults is at most the page_faults of fifo, of lru and of lfu
\* on the same input, for the build's set order and for every other way the
\* eviction ties of optimal can be resolved.
C4_OptimalMinimal ==
  /\ (Finished /\ pc = "optimal") =>
        /\ self.page_faults <= fifo(Fresh).page_faults
        /\ self.page_faults <= lru(Fresh).page_faults
        /\ self.page_faults <= lfu(Fresh).page_faults
        /\ self.page_faults \in optimal_faults(self.frames, self.reference_string, {}, 1)
  /\ (Finished /\ pc \in {"fifo", "lru", "lfu"}) =>
        \A n \in optimal_faults(self.frames, self.reference_string, {}, 1) :
          n <= self.page_faults

\* C4 witness: a completed fifo run that faulted more often than optimal does.
C4_Witness ==
  /\ Finished /\ pc = "fifo"
  /\ \E n \in optimal_faults(self.frames, self.reference_string, {}, 1) : n < self.page_faults

\* The positions after the one being processed at which p is referenced.
Later(p) == {k \in (i + 1)..Len(self.reference_string) : self.reference_string[k] = p}

\* The first of them.
FirstLater(p) == CHOOSE k \in Later(p) : \A j \in Later(p) : k <= j

\* The next use of e is at least as far as the next use of p; a page that is
\* never referenced again is infinitely far.
NotSooner(e, p) ==
  Later(e) = {} \/ (Later(p) # {} /\ FirstLater(e) >= FirstLater(p))

\* C5: the page optimal evicts is resident, and no resident page has its next
\* occurrence later than the evicted page's (never again counts as infinitely far).
C5_FarthestEvicted ==
  [][(pc = "optimal" /\ Evicts) =>
        /\ Victim \in opt_cache
        /\ \A p \in opt_cache : NotSooner(Victim, p)]_vars

\* C5 witness: optimal evicted, out of several resident pages, one that is
\* referenced again later.
C5_Witness ==
  /\ pc = "optimal" /\ JustEvicted
  /\ Cardinality(opt_cache) >= 2
  /\ \E k \in i..Len(self.reference_string) : self.reference_string[k] = Evicted

\* The pages in the snapshot that step j logged.
Snap(j) == Range(Snapshots(self.log)[j].state)

\* The step at which the resident page p was loaded: it is in every snapshot
\* from that step on, and not in the one before.
LoadedAt(p) ==
  CHOOSE k \in 1..(i - 1) :
    /\ \A j \in k..(i - 1) : p \in Snap(j)
    /\ k = 1 \/ p \notin Snap(k - 1)

\* The steps taken so far that faulted: the page was not in the snapshot before.
LoadSteps ==
  {k \in 1..(i - 1) : k = 1 \/ self.reference_string[k] \notin Snap(k - 1)}

\* The page loaded by the n-th fault.
NthLoad(n) ==
  self.reference_string[CHOOSE k \in LoadSteps : Cardinality({j \in LoadSteps : j <= k}) = n]

\* C6: fifo evicts the resident page that was loaded earliest; a hit leaves the
\* queue as it is; the n-th eviction removes the n-th page loaded.
C6_FifoOrder ==
  /\ [][(pc = "fifo" /\ Evicts) =>
          /\ Victim \in Range(queue)
          /\ \A p \in Range(queue) : LoadedAt(Victim) <= LoadedAt(p)]_vars
  /\ [][(pc = "fifo" /\ Iter /\ self'.page_hits = self.page_hits + 1) => queue' = queue]_vars
  /\ [](pc = "fifo" =>
          \A n \in 1..Len(Replacements(self.log)) :
            Replacements(self.log)[n].removed = NthLoad(n))

\* C6 witness: fifo evicted a page right after a hit on it, with another page
\* resident.
C6_Witness ==
  /\ pc = "fifo" /\ JustEvicted /\ i >= 4
  /\ self.frames >= 2
  /\ self.reference_string[i - 2] = Evicted
  /\ Evicted \in Range(Snapshots(self.log)[i - 3].state)

\* The last step so far at which p was referenced.
LastRef(p) ==
  CHOOSE k \in 1..(i - 1) :
    /\ self.reference_string[k] = p
    /\ \A j \in (k + 1)..(i - 1) : self.reference_string[j] # p

\* C7: lru evicts the resident page whose most recent reference is the oldest;
\* on [1,2,3,1,4] with 3 frames the only eviction is of page 2, by page 4.
C7_LruOrder ==
  /\ [][(pc = "lru" /\ Evicts) =>
          /\ Victim \in Range(lru_cache)
          /\ \A p \in Range(lru_cache) : LastRef(Victim) <= LastRef(p)]_vars
  /\ []((Finished /\ pc = "lru" /\ <<self.frames, self.reference_string>> = LruInput) =>
          Replacements(self.log) = <<Replaced(2, 4)>>)

\* C7 witness: the completed lru run on [1,2,3,1,4] with 3 frames.
C7_Witness ==
  /\ Finished /\ pc = "lru"
  /\ <<self.frames, self.reference_string>> = LruInput
  /\ Len(Replacements(self.log)) = 1

\* The number of references to p up to and including the one being processed.
Freq(p) == Cardinality({k \in 1..i : self.reference_string[k] = p})

\* C8: lfu evicts a resident page of the smallest frequency, and among those the
\* one inserted earliest; a page is inserted with the log length as its tag, and
\* the tags increase strictly in insertion order; on [1,2,1,3,4] with 3 frames
\* the only eviction is of page 2, by page 4.
C8_LfuOrder ==
  /\ [][(pc = "lfu" /\ Evicts) =>
          LET R == Range(Keys(lfu_cache))
          IN /\ Victim \in R
             /\ \A p \in R :
                  /\ Freq(Victim) <= Freq(p)
                  /\ Freq(p) = Freq(Victim) => LoadedAt(Victim) <= LoadedAt(p)]_vars
  /\ [][(pc = "lfu" /\ Iter /\ self'.page_faults = self.page_faults + 1) =>
          /\ Len(lfu_cache') >= 1
          /\ lfu_cache'[Len(lfu_cache')].page = self.reference_string[i]
          /\ lfu_cache'[Len(lfu_cache')].tag = Len(self'.log) - 1]_vars
  /\ [](pc = "lfu" =>
          \A a, b \in 1..Len(lfu_cache) : a < b => lfu_cache[a].tag < lfu_cache[b].tag)
  /\ []((Finished /\ pc = "lfu" /\ <<self.frames, self.reference_string>> = LfuInput) =>
          Replacements(self.log) = <<Replaced(2, 4)>>)

\* C8 witness: the completed lfu run on [1,2,1,3,4] with 3 frames.
C8_Witness ==
  /\ Finished /\ pc = "lfu"
  /\ <<self.frames, self.reference_string>> = LfuInput
  /\ Len(Replacements(self.log)) = 1

\* What a run leaves behind: page_hits, page_faults and the log.
Outcome(s) == <<s.page_hits, s.page_faults, s.log>>

\* The executing method, run on the freshly constructed simulator.
FreshRun ==
  CASE pc = "fifo" -> fifo(Fresh)
    [] pc = "lru" -> lru(Fresh)
    [] pc = "lfu" -> lfu(Fresh)
    [] pc = "optimal" -> optimal(Fresh, setOrder)

\* C9: whatever ran on the simulator before, a completed run leaves the same
\* page_hits, page_faults and log as the same method leaves on a freshly
\* constructed simulator with the same inputs.
C9_RunsIndependent ==
  Finished => Outcome(self) = Outcome(FreshRun)

\* C9 witness: a completed optimal run with hits and evictions on a simulator
\* that had completed another run before.
C9_Witness ==
  /\ Finished /\ reused /\ pc = "optimal"
  /\ self.page_hits >= 1
  /\ Len(Replacements(self.log)) >= 1

\* C10: with one frame the four policies end with the same page_faults, and a
\* reference to a page other than the resident one evicts the resident one.
C10_OneFrame ==
  /\ []((Finished /\ self.frames = 1) =>
          /\ self.page_faults = fifo(Fresh).page_faults
          /\ self.page_faults = lru(Fresh).page_faults
          /\ self.page_faults = lfu(Fresh).page_faults
          /\ self.page_faults = optimal(Fresh, setOrder).page_faults
          /\ optimal_faults(1, self.reference_string, {}, 1) = {self.page_faults})
  /\ [][(self.frames = 1 /\ Iter /\ Resident # {} /\ self.reference_string[i] \notin Resident) =>
          /\ Evicts
          /\ Resident = {Victim}
          /\ ResidentNext = {self.reference_string[i]}
          /\ self'.log[Len(self.log) + 1] = Replaced(Victim, self.reference_string[i])]_vars

\* C10 witness: a completed one-frame lfu run with evictions and a hit.
C10_Witness ==
  /\ Finished /\ self.frames = 1 /\ pc = "lfu"
  /\ Len(Replacements(self.log)) >= 2
  /\ self.page_hits >= 1

\* C11 as stated: with frames <= 0 no policy step is executed, so no counter and
\* no log entry is ever changed.
C11_InvalidFramesRejected ==
  self.frames <= 0 =>
    self.page_faults = 0 /\ self.page_hits = 0 /\ self.log = <<>>

\* C12 as stated: displaying the results of a run on an empty reference string
\* does not divide by zero.
C12_EmptyReferencesGuarded ==
  (Len(self.reference_string) = 0 /\ report # NoReport) => error = "none"

\* The log entries the step being taken appends.
Added == SubSeq(self'.log, Len(self.log) + 1, Len(self'.log))

\* C13: the log only grows; every step ends with exactly one snapshot, of the
\* resident pages, so a completed run has len(reference_string) snapshots; a step
\* that removes a resident page appends one replacement record right before its
\* snapshot, and any other step appends the snapshot alone.
C13_LogShape ==
  /\ [](pc # "new" => Len(Snapshots(self.log)) = i - 1)
  /\ [](Finished => Len(Snapshots(self.log)) = Len(self.reference_string))
  /\ [][Iter =>
          /\ SubSeq(self'.log, 1, Len(self.log)) = self.log
          /\ IF Resident \ ResidentNext # {}
             THEN /\ Len(Added) = 2
                  /\ Added[1].kind = "replaced"
                  /\ Resident \ ResidentNext = {Added[1].removed}
                  /\ Added[1].page = self.reference_string[i]
                  /\ Added[2].kind = "state"
                  /\ Range(Added[2].state) = ResidentNext
             ELSE /\ Len(Added) = 1
                  /\ Added[1].kind = "state"
                  /\ Range(Added[1].state) = ResidentNext]_vars

\* C13 witness: a completed fifo run with a hit and an eviction in its log.
C13_Witness ==
  /\ Finished /\ pc = "fifo"
  /\ self.page_hits >= 1
  /\ Len(self.log) > Len(self.reference_string)

\* C14 as stated: once B has run after A on the same simulator, the hits, faults
\* and log that A left are still what the simulator holds.
C14_ResultIntact ==
  (Finished /\ kept # NoResult) => Result(kept.policy, self) = kept

\* C14 amended: a call of the next method resets both counters and empties the
\* log the last run produced, so the last run's result is gone from the simulator
\* as soon as the next method is called, and the next run's result holds only its
\* own len(reference_string) snapshots and classifications.
C14_ResultReplaced ==
  /\ [][(CallFifo \/ CallLru \/ CallLfu \/ CallOptimal) =>
          /\ self'.page_hits = 0 /\ self'.page_faults = 0 /\ self'.log = <<>>
          /\ pc # "new" => kept' = Result(pc, self)]_vars
  /\ []((Finished /\ kept # NoResult) =>
          /\ Len(Snapshots(self.log)) = Len(self.reference_string)
          /\ self.page_hits + self.page_faults = Len(self.reference_string))

\* C14 witness: B has completed after A, and the simulator's faults and log are
\* not the ones A left.
C14_Witness ==
  /\ Finished /\ kept # NoResult
  /\ kept.policy # pc
  /\ kept.page_faults # self.page_faults
  /\ kept.log # self.log

\* The snapshot a step has just logged.
LastSnapshot(log) == log[Len(log)].state

\* C15: a hit leaves page_faults alone, appends the snapshot and nothing else, and
\* keeps the same pages resident; in fifo and optimal the snapshot is the previous
\* step's snapshot, page for page, and the container is untouched.
C15_HitFrame ==
  [][(Iter /\ self'.page_hits = self.page_hits + 1) =>
        /\ self'.page_faults = self.page_faults
        /\ Len(Added) = 1 /\ Added[1].kind = "state"
        /\ SubSeq(self'.log, 1, Len(self.log)) = self.log
        /\ ResidentNext = Resident
        /\ Range(Added[1].state) = Resident
        /\ pc \in {"fifo", "optimal"} =>
             /\ Len(self.log) >= 1
             /\ Added[1] = self.log[Len(self.log)]
             /\ UNCHANGED <<queue, opt_cache>>]_vars

\* C15 witness: a fifo hit on the page at the front of a full queue.
C15_Witness ==
  /\ pc = "fifo" /\ i >= 3
  /\ self.page_hits >= 1
  /\ Len(queue) = self.frames /\ self.frames >= 2
  /\ self.reference_string[i - 1] = queue[1]
  /\ LastSnapshot(self.log) = self.log[Len(self.log) - 1].state

\* C16: a step removes a resident page or logs a replacement only if it is a fault
\* that finds frames >= 1 pages resident; the page removed was resident, is not
\* the incoming page, and the step's snapshot lists the incoming page and not the
\* removed one.
C16_EvictionOnlyWhenFull ==
  [][(Iter /\ (Resident \ ResidentNext # {} \/ Len(Added) # 1)) =>
        /\ self.reference_string[i] \notin Resident
        /\ self.frames >= 1
        /\ Cardinality(Resident) = self.frames
        /\ self'.page_faults = self.page_faults + 1
        /\ self'.page_hits = self.page_hits
        /\ Evicts
        /\ Resident \ ResidentNext = {Victim}
        /\ Victim # self.reference_string[i]
        /\ Victim \notin Range(LastSnapshot(self'.log))
        /\ self.reference_string[i] \in Range(LastSnapshot(self'.log))]_vars

\* C16 witness: optimal has just evicted from a full set of several pages.
C16_Witness ==
  /\ pc = "optimal" /\ JustEvicted
  /\ self.frames >= 2
  /\ Evicted \notin opt_cache
  /\ Cardinality(opt_cache) = self.frames

\* The number of references to p among those processed so far.
Occurrences(p) == Cardinality({k \in 1..(i - 1) : self.reference_string[k] = p})

\* C17: in lfu the counter of every page is the number of references to it
\* processed so far, evicted or not; a step adds one to the counter of its page
\* and leaves the others.
C17_LfuFrequency ==
  /\ [](pc = "lfu" =>
          \A p \in Range(self.reference_string) \cup DOMAIN frequency :
            CounterGet(frequency, p) = Occurrences(p))
  /\ [][(pc = "lfu" /\ Iter) =>
          \A p \in Range(self.reference_string) :
            CounterGet(frequency', p) =
              CounterGet(frequency, p) + (IF p = self.reference_string[i] THEN 1 ELSE 0)]_vars

\* C17 witness: a page that lfu evicted is resident again, with the references
\* from before its eviction counted.
C17_Witness ==
  /\ pc = "lfu"
  /\ \E n \in 1..Len(Replacements(self.log)) :
       LET p == Replacements(self.log)[n].removed
       IN p \in Resident /\ CounterGet(frequency, p) >= 2

\* C18: the snapshot a fifo step logs lists the resident pages by the step that
\* loaded them, oldest first; the snapshot an lru step logs lists them by their
\* last reference, least recent first, and ends with the page just referenced.
C18_SnapshotOrder ==
  /\ (pc = "fifo" /\ i > 1) =>
        LET s == LastSnapshot(self.log)
        IN /\ Range(s) = Resident
           /\ \A a, b \in 1..Len(s) : a < b => LoadedAt(s[a]) < LoadedAt(s[b])
  /\ (pc = "lru" /\ i > 1) =>
        LET s == LastSnapshot(self.log)
        IN /\ Range(s) = Resident
           /\ \A a, b \in 1..Len(s) : a < b => LastRef(s[a]) < LastRef(s[b])
           /\ s[Len(s)] = self.reference_string[i - 1]

\* C18 witness: an lru snapshot whose order is not the order of loading.
C18_Witness ==
  /\ pc = "lru" /\ i > 1
  /\ LET s == LastSnapshot(self.log)
     IN \E a, b \in 1..Len(s) : a < b /\ LoadedAt(s[a]) > LoadedAt(s[b])

\* The replacement records a completed run must have logged.
ExpectedReplacements ==
  self.page_faults - Smaller(self.frames, Cardinality(Range(self.reference_string)))

\* C19: a completed run has logged page_faults - min(frames, distinct pages)
\* replacement records, and len(reference_string) entries more than that in all.
C19_ReplacementCount ==
  Finished =>
    /\ Len(Replacements(self.log)) = ExpectedReplacements
    /\ Len(self.log) = Len(self.reference_string) + ExpectedReplacements

\* C19 witness: a completed lru run with two or more replacements.
C19_Witness ==
  /\ Finished /\ pc = "lru"
  /\ Len(Replacements(self.log)) >= 2

\* C20: after every step the page it referenced is resident, and no snapshot in
\* the log lists a page twice.
C20_ReferencedResident ==
  (pc # "new" /\ i > 1) =>
    /\ self.reference_string[i - 1] \in Resident
    /\ \A n \in 1..Len(Snapshots(self.log)) :
         LET s == Snapshots(self.log)[n].state
         IN Cardinality(Range(s)) = Len(s)

\* C20 witness: optimal has just evicted, and the incoming page is resident in a
\* full set.
C20_Witness ==
  /\ pc = "optimal" /\ JustEvicted
  /\ self.reference_string[i - 1] \in opt_cache
  /\ Len(LastSnapshot(self.log)) = self.frames
  /\ self.page_hits >= 1

====
